---------------------------- MODULE Spec2Model ----------------------------
(* Multi-agent workflow composition: agent nodes, handoff tools, input and *)
(* output adapters, the workflow graph builder and the supervisor          *)
(* assemblies (langgraph_multi_agent and langgraph_multi_agent_supervisor).*)
(*                                                                         *)
(* Names are sequences of one-character strings, so that the tool name     *)
(* "transfer_to_<name>" is a concatenation and Python's `in` on strings is *)
(* a substring test.  Python's None is the empty sequence for names and    *)
(* for optional values: None == <<>>, a present value x is <<x>>.          *)
EXTENDS Integers, Sequences, FiniteSets, TLC

(***************************************************************************)
(* Bounds                                                                  *)
(***************************************************************************)
MaxAgents == 2

(***************************************************************************)
(* Values                                                                  *)
(***************************************************************************)
None == <<>>

Some(x) == <<x>>

\* Python truthiness of a `list | None` value
Truthy(opt) == Len(opt) > 0 /\ Len(opt[1]) > 0

NameB == <<"b">>

NameC == <<"c">>

NameBC == <<"b", "c">>

\* default `supervisor_name` of both create_supervisor functions
DefaultSupervisorName == <<"s", "u", "p", "e", "r", "v", "i", "s", "o", "r">>

\* name a CompiledStateGraph has when it was compiled without one
LangGraphName == <<"L", "a", "n", "g", "G", "r", "a", "p", "h">>

START == <<"__start__">>

InputStrategies == {"full_history", "tool_call"}

OutputStrategies == {"full_history", "last_message", "tool_response"}

NoError == [kind |-> "none", source |-> None, target |-> None]

Error(kind, source, target) == [kind |-> kind, source |-> source, target |-> target]

(***************************************************************************)
(* handoff.py: HandoffConfig.  An entry of can_handoff_to is a plain name  *)
(* (is_str) or a HandoffConfig.                                            *)
(***************************************************************************)
HandoffConfig(agent_name, create_task_description) ==
    [agent_name |-> agent_name, create_task_description |-> create_task_description]

StrEntry(agent_name) ==
    [is_str |-> TRUE, agent_name |-> agent_name, create_task_description |-> FALSE]

ConfigEntry(agent_name, create_task_description) ==
    [is_str |-> FALSE, agent_name |-> agent_name,
     create_task_description |-> create_task_description]

\* `HandoffConfig(agent_name=handoff_to) if isinstance(handoff_to, str) else handoff_to`
AsHandoffConfig(entry) ==
    IF entry.is_str
    THEN HandoffConfig(entry.agent_name, FALSE)
    ELSE HandoffConfig(entry.agent_name, entry.create_task_description)

(***************************************************************************)
(* Agent nodes                                                             *)
(***************************************************************************)
\* LangGraphAgent.__init__: stores its arguments, checks nothing
LangGraphAgent(name, agent, is_entrypoint, always_handoff_to, agent_input_strategy, agent_output_strategy) ==
    [class |-> "LangGraphAgent",
     name |-> name,
     agent |-> agent,
     is_entrypoint |-> is_entrypoint,
     always_handoff_to |-> always_handoff_to,
     agent_input_strategy |-> agent_input_strategy,
     agent_output_strategy |-> agent_output_strategy,
     can_handoff_to |-> None]

\* ToolCallingAgent._validate: the error it raises, NoError when it returns
_validate(self) ==
    IF self.agent_output_strategy = "tool_response"
       /\ self.agent_input_strategy # "tool_call"
    THEN Error("tool_response_requires_tool_call", self.name, None)
    ELSE IF self.agent_output_strategy = "last_message" /\ Truthy(self.can_handoff_to)
    THEN Error("last_message_with_handoffs", self.name, None)
    ELSE NoError

\* ToolCallingAgent.__init__: [error, node]; the underlying capability is the
\* ReAct agent the constructor creates (identified by the node's name)
ToolCallingAgent(name, is_entrypoint, can_handoff_to, always_handoff_to, agent_input_strategy, agent_output_strategy) ==
    LET self == [class |-> "ToolCallingAgent",
                 name |-> name,
                 agent |-> name,
                 is_entrypoint |-> is_entrypoint,
                 always_handoff_to |-> always_handoff_to,
                 agent_input_strategy |-> agent_input_strategy,
                 agent_output_strategy |-> agent_output_strategy,
                 can_handoff_to |-> can_handoff_to]
    IN [error |-> _validate(self), node |-> self]

\* a compiled graph handed to langgraph_multi_agent_supervisor.create_supervisor:
\* only its name and its invoke are used
CompiledStateGraph(name) ==
    [class |-> "CompiledStateGraph",
     name |-> name,
     agent |-> name,
     is_entrypoint |-> FALSE,
     always_handoff_to |-> None,
     agent_input_strategy |-> "full_history",
     agent_output_strategy |-> "full_history",
     can_handoff_to |-> None]

\* keyword overrides of copy(): each field is None (not given) or Some(value)
NoUpdate ==
    [name |-> None, is_entrypoint |-> None, always_handoff_to |-> None,
     agent_input_strategy |-> None, agent_output_strategy |-> None]

Override(opt, old) == IF Len(opt) = 0 THEN old ELSE opt[1]

\* LangGraphAgent.copy: `self.__class__(**{**self.__dict__, **update})`.
\* A ToolCallingAgent's __dict__ holds `agent` (and `handoff_configs`), which
\* ToolCallingAgent.__init__ does not accept: the call raises TypeError.
copy(self, update) ==
    IF self.class = "ToolCallingAgent"
    THEN [error |-> Error("copy_unexpected_argument", self.name, None), node |-> self]
    ELSE [error |-> NoError,
          node |-> LangGraphAgent(Override(update.name, self.name),
                                  self.agent,
                                  Override(update.is_entrypoint, self.is_entrypoint),
                                  Override(update.always_handoff_to, self.always_handoff_to),
                                  Override(update.agent_input_strategy, self.agent_input_strategy),
                                  Override(update.agent_output_strategy, self.agent_output_strategy))]

(***************************************************************************)
(* The graph builder of the execution engine (StateGraph), as far as the   *)
(* repository uses it: vertex and edge registration.                       *)
(***************************************************************************)
EmptyGraph == [nodes |-> <<>>, edges |-> {}, list_edges |-> {}, error |-> NoError]

NodeNames(g) == {g.nodes[i].name : i \in 1..Len(g.nodes)}

\* builder.add_node(name, node): a name already registered is rejected
add_node(g, name, node) ==
    IF g.error # NoError THEN g
    ELSE IF name \in NodeNames(g)
    THEN [g EXCEPT !.error = Error("node_already_present", name, None)]
    ELSE [g EXCEPT !.nodes = Append(@, [name |-> name, node |-> node])]

\* builder.add_edge(start, end) with `end` a name
add_edge(g, start, end) ==
    IF g.error # NoError THEN g
    ELSE [g EXCEPT !.edges = @ \cup {<<start, end>>}]

\* builder.add_edge(start, end) with `end` a list of names, as workflow.py:50
\* passes it.  A list is not a vertex name: the engine either stores the pair
\* as given or rejects the call.
EdgeOutcomes == {"stored", "rejected"}

add_edge_to_list(g, start, end_list, outcome) ==
    IF g.error # NoError THEN g
    ELSE IF outcome = "stored"
    THEN [g EXCEPT !.list_edges = @ \cup {<<start, end_list>>}]
    ELSE [g EXCEPT !.error = Error("invalid_edge_end", start, None)]

(***************************************************************************)
(* workflow.py                                                             *)
(***************************************************************************)
\* `{agent.name: agent for agent in agents}`: keys in order of first
\* occurrence, each bound to the last agent of that name
RECURSIVE KeysInOrder(_)
KeysInOrder(agents) ==
    IF agents = <<>> THEN <<>>
    ELSE LET front == KeysInOrder(SubSeq(agents, 1, Len(agents) - 1))
             last == agents[Len(agents)].name
         IN IF \E i \in 1..Len(front) : front[i] = last
            THEN front
            ELSE Append(front, last)

HasKey(agents, name) == \E i \in 1..Len(agents) : agents[i].name = name

\* agent_name_to_agent.get(name), defined when HasKey
Lookup(agents, name) ==
    LET last == CHOOSE i \in 1..Len(agents) :
                    /\ agents[i].name = name
                    /\ \A j \in (i + 1)..Len(agents) : agents[j].name # name
    IN agents[last]

\* the inner loop without the input-strategy check of a task-description handoff
RECURSIVE ValidateConfigsAnyStrategy(_, _, _, _)
ValidateConfigsAnyStrategy(agents, agent_name, entries, k) ==
    IF k > Len(entries) THEN NoError
    ELSE LET handoff_config == AsHandoffConfig(entries[k])
         IN IF ~HasKey(agents, handoff_config.agent_name)
            THEN Error("unknown_handoff_target", agent_name, handoff_config.agent_name)
            ELSE ValidateConfigsAnyStrategy(agents, agent_name, entries, k + 1)

\* the inner loop with a missing target skipped instead of raised
RECURSIVE ValidateConfigsSkippingMissing(_, _, _, _)
ValidateConfigsSkippingMissing(agents, agent_name, entries, k) ==
    IF k > Len(entries) THEN NoError
    ELSE LET handoff_config == AsHandoffConfig(entries[k])
         IN IF ~HasKey(agents, handoff_config.agent_name)
            THEN ValidateConfigsSkippingMissing(agents, agent_name, entries, k + 1)
            ELSE IF /\ handoff_config.create_task_description
                    /\ Lookup(agents, handoff_config.agent_name).agent_input_strategy
                           # "tool_call"
            THEN Error("task_description_strategy", agent_name, handoff_config.agent_name)
            ELSE ValidateConfigsSkippingMissing(agents, agent_name, entries, k + 1)

\* the inner loop of _validate_agent_handoffs over agent.can_handoff_to
RECURSIVE ValidateConfigs(_, _, _, _)
ValidateConfigs(agents, agent_name, entries, k) ==
    IF k > Len(entries) THEN NoError
    ELSE LET handoff_config == AsHandoffConfig(entries[k])
         IN IF ~HasKey(agents, handoff_config.agent_name)
            THEN Error("unknown_handoff_target", agent_name, handoff_config.agent_name)
            ELSE IF /\ handoff_config.create_task_description
                    /\ Lookup(agents, handoff_config.agent_name).agent_input_strategy
                           # "tool_call"
            THEN Error("task_description_strategy", agent_name, handoff_config.agent_name)
            ELSE ValidateConfigs(agents, agent_name, entries, k + 1)

\* the outer loop of _validate_agent_handoffs over the table's items
RECURSIVE ValidateFrom(_, _, _)
ValidateFrom(agents, keys, i) ==
    IF i > Len(keys) THEN NoError
    ELSE LET agent == Lookup(agents, keys[i])
         IN IF agent.class # "ToolCallingAgent" \/ ~Truthy(agent.can_handoff_to)
            THEN ValidateFrom(agents, keys, i + 1)
            ELSE LET e == ValidateConfigs(agents, keys[i], agent.can_handoff_to[1], 1)
                 IN IF e # NoError THEN e ELSE ValidateFrom(agents, keys, i + 1)

_validate_agent_handoffs(agents) == ValidateFrom(agents, KeysInOrder(agents), 1)

\* the loop body of create_multi_agent_workflow for one agent
AddAgentToGraph(g, agent, outcome) ==
    LET g1 == add_node(g, agent.name, agent)
        g2 == IF agent.is_entrypoint THEN add_edge(g1, START, agent.name) ELSE g1
    IN IF Truthy(agent.always_handoff_to)
       THEN add_edge_to_list(g2, agent.name, agent.always_handoff_to[1], outcome)
       ELSE g2

RECURSIVE AddAgentsFrom(_, _, _, _)
AddAgentsFrom(g, agents, i, outcome) ==
    IF i > Len(agents) THEN g
    ELSE AddAgentsFrom(AddAgentToGraph(g, agents[i], outcome), agents, i + 1, outcome)

create_multi_agent_workflow(agents, outcome) ==
    LET e == _validate_agent_handoffs(agents)
    IN IF e # NoError
       THEN [EmptyGraph EXCEPT !.error = e]
       ELSE AddAgentsFrom(EmptyGraph, agents, 1, outcome)


(***************************************************************************)
(* architectures/supervisor.py                                             *)
(***************************************************************************)
\* the worker loop of create_supervisor: [error, nodes] of the copies made
RECURSIVE CopyWorkers(_, _, _)
CopyWorkers(agents, i, update) ==
    IF i > Len(agents) THEN [error |-> NoError, nodes |-> <<>>]
    ELSE LET c == copy(agents[i], update)
         IN IF c.error # NoError
            THEN [error |-> c.error, nodes |-> <<>>]
            ELSE LET rest == CopyWorkers(agents, i + 1, update)
                 IN [error |-> rest.error, nodes |-> <<c.node>> \o rest.nodes]

SupervisorNode(agents, supervisor_name, agents_as_tools) ==
    ToolCallingAgent(supervisor_name, TRUE,
                     Some([i \in 1..Len(agents) |->
                               ConfigEntry(agents[i].name, agents_as_tools)]),
                     None, "full_history", "full_history")

WorkerUpdate(supervisor_name, is_router, agents_as_tools) ==
    [NoUpdate EXCEPT
        !.always_handoff_to = Some(Some(IF ~is_router THEN <<supervisor_name>> ELSE <<>>)),
        !.agent_input_strategy =
            Some(IF agents_as_tools THEN "tool_call" ELSE "full_history"),
        !.agent_output_strategy =
            Some(IF agents_as_tools THEN "tool_response" ELSE "last_message")]

create_supervisor(agents, supervisor_name, is_router, agents_as_tools, outcome) ==
    LET supervisor == SupervisorNode(agents, supervisor_name, agents_as_tools)
        workers == CopyWorkers(agents, 1,
                               WorkerUpdate(supervisor_name, is_router, agents_as_tools))
    IN IF supervisor.error # NoError
       THEN [EmptyGraph EXCEPT !.error = supervisor.error]
       ELSE IF workers.error # NoError
       THEN [EmptyGraph EXCEPT !.error = workers.error]
       ELSE create_multi_agent_workflow(<<supervisor.node>> \o workers.nodes, outcome)

(***************************************************************************)
(* langgraph_multi_agent_supervisor/supervisor.py                          *)
(***************************************************************************)
OutputModes == {"full_history", "last_message"}

\* the name check of create_supervisor, lines 96-109
RECURSIVE CheckAgentNames(_, _, _)
CheckAgentNames(agents, i, agent_names) ==
    IF i > Len(agents) THEN NoError
    ELSE IF agents[i].name = None \/ agents[i].name = LangGraphName
    THEN Error("agent_unnamed", agents[i].name, None)
    ELSE IF agents[i].name \in agent_names
    THEN Error("agent_name_exists", agents[i].name, None)
    ELSE CheckAgentNames(agents, i + 1, agent_names \cup {agents[i].name})

\* _make_call_agent: the vertex registered for a worker, or the error raised
_make_call_agent(agent, agent_output_mode) ==
    IF agent_output_mode \notin OutputModes
    THEN [error |-> Error("invalid_output_mode", agent.name, None), node |-> agent]
    ELSE [error |-> NoError,
          node |-> [agent EXCEPT !.agent_output_strategy = agent_output_mode]]

RECURSIVE AddWorkersFrom(_, _, _, _, _, _)
AddWorkersFrom(g, agents, i, supervisor_name, is_router, agent_output_mode) ==
    IF i > Len(agents) \/ g.error # NoError THEN g
    ELSE LET c == _make_call_agent(agents[i], agent_output_mode)
             g1 == IF c.error # NoError
                   THEN [g EXCEPT !.error = c.error]
                   ELSE add_node(g, agents[i].name, c.node)
             g2 == IF ~is_router THEN add_edge(g1, agents[i].name, supervisor_name) ELSE g1
         IN AddWorkersFrom(g2, agents, i + 1, supervisor_name, is_router, agent_output_mode)

legacy_create_supervisor(agents, supervisor_name, is_router, agent_output_mode) ==
    LET e == CheckAgentNames(agents, 1, {})
        g1 == add_node(EmptyGraph, supervisor_name, CompiledStateGraph(supervisor_name))
        g2 == add_edge(g1, START, supervisor_name)
    IN IF e # NoError
       THEN [EmptyGraph EXCEPT !.error = e]
       ELSE AddWorkersFrom(g2, agents, 1, supervisor_name, is_router, agent_output_mode)

(***************************************************************************)
(* Messages and the shared state                                           *)
(*                                                                         *)
(* A message's id and tool_call_id are numbers, 0 for None.  Contents are  *)
(* sequences of strings.  The args of a tool call are None without a       *)
(* task_description key and Some(d) with task_description = d.             *)
(***************************************************************************)
Message(type, content, id, name, tool_call_id, tool_calls, additional_kwargs) ==
    [type |-> type, content |-> content, id |-> id, name |-> name,
     tool_call_id |-> tool_call_id, tool_calls |-> tool_calls,
     additional_kwargs |-> additional_kwargs]

HumanMessage(content, additional_kwargs) ==
    Message("human", content, 0, None, 0, <<>>, additional_kwargs)

AIMessage(content, tool_calls) ==
    Message("ai", content, 0, None, 0, tool_calls, None)

ToolMessage(content, name, tool_call_id, id) ==
    Message("tool", content, id, name, tool_call_id, <<>>, None)

ToolCall(name, args, id) == [name |-> name, args |-> args, id |-> id]

Last(seq) == seq[Len(seq)]

\* Python's `sub in s` on strings
Contains(sub, s) ==
    \E i \in 1..(Len(s) - Len(sub) + 1) : SubSeq(s, i, i + Len(sub) - 1) = sub

MaxId(messages) ==
    LET ids == {messages[i].id : i \in 1..Len(messages)} \cup {0}
    IN CHOOSE n \in ids : \A m \in ids : m <= n

\* the `messages` reducer the shared state is merged with (langgraph_agent.py:89-91):
\* a message without an id gets a fresh one; a message whose id is already in
\* the state replaces that message in place; any other message is appended
RECURSIVE MergeFrom(_, _, _)
MergeFrom(left, right, k) ==
    IF k > Len(right) THEN left
    ELSE LET m == right[k]
             hit == {i \in 1..Len(left) : left[i].id = m.id}
         IN MergeFrom(IF hit = {}
                      THEN Append(left, m)
                      ELSE [left EXCEPT ![CHOOSE i \in hit : TRUE] = m],
                      right, k + 1)

add_messages(left, right) ==
    LET base == MaxId(left \o right)
        withIds == [k \in 1..Len(right) |->
                       IF right[k].id = 0 THEN [right[k] EXCEPT !.id = base + k]
                       ELSE right[k]]
    IN MergeFrom(left, withIds, 1)

(***************************************************************************)
(* handoff.py: create_handoff_tool                                         *)
(***************************************************************************)
TransferTo == <<"t", "r", "a", "n", "s", "f", "e", "r", "_", "t", "o", "_">>

\* tool_name = f"transfer_to_{handoff_config.agent_name}"
ToolName(agent_name) == TransferTo \o agent_name

\* tool_message_content = f"Successfully transferred to {handoff_config.agent_name}"
ToolMessageContent(agent_name) == <<"Successfully transferred to ">> \o agent_name

\* the tool: its name, whether it takes task_description, and its config
create_handoff_tool(handoff_config) ==
    [name |-> ToolName(handoff_config.agent_name),
     takes_task_description |-> handoff_config.create_task_description,
     handoff_config |-> handoff_config]

\* handoff_to_agent writing the task description as the tool message's content
handoff_to_agent_forwarding(handoff_config, task_description, tool_call_id) ==
    LET tool_message == ToolMessage(IF task_description = None
                                    THEN ToolMessageContent(handoff_config.agent_name)
                                    ELSE task_description[1],
                                    ToolName(handoff_config.agent_name),
                                    tool_call_id, 0)
    IN [goto |-> handoff_config.agent_name,
        graph |-> "PARENT",
        update |-> <<tool_message>>]

\* handoff_to_agent, either shape: task_description (None for the shape
\* without it) is not used in the body
handoff_to_agent(handoff_config, task_description, tool_call_id) ==
    LET tool_message == ToolMessage(ToolMessageContent(handoff_config.agent_name),
                                    ToolName(handoff_config.agent_name),
                                    tool_call_id, 0)
    IN [goto |-> handoff_config.agent_name,
        graph |-> "PARENT",
        update |-> <<tool_message>>]

(***************************************************************************)
(* agents/langgraph_agent.py: input and output adapters                    *)
(***************************************************************************)
Adapted(error, messages) == [error |-> error, messages |-> messages]

_get_agent_input_from_tool_call(input, agent_name) ==
    IF Len(input) < 2
    THEN Adapted(Error("too_few_messages", agent_name, None), <<>>)
    ELSE LET last_ai_message == input[Len(input) - 1]
             last_tool_message == input[Len(input)]
         IN IF last_ai_message.type # "ai" \/ last_tool_message.type # "tool"
            THEN Adapted(Error("last_two_types", agent_name, None), <<>>)
            ELSE IF Len(last_ai_message.tool_calls) # 1
            THEN Adapted(Error("tool_call_count", agent_name, None), <<>>)
            ELSE LET tool_call == Last(last_ai_message.tool_calls)
                 IN IF ~Contains(agent_name, tool_call.name)
                    THEN Adapted(Error("tool_call_name", agent_name, None), <<>>)
                    ELSE IF tool_call.args = None
                    THEN Adapted(Error("no_task_description", agent_name, None), <<>>)
                    ELSE Adapted(NoError,
                                 <<HumanMessage(tool_call.args[1],
                                       Some([tool_call_id |-> tool_call.id,
                                             tool_call_name |-> tool_call.name,
                                             tool_message_id |-> last_tool_message.id]))>>)

\* the tool response built without the placeholder's id
_get_agent_output_as_tool_response_without_id(output) ==
    IF Len(output) = 0
    THEN Adapted(Error("index_error", None, None), <<>>)
    ELSE IF output[1].additional_kwargs = None
    THEN Adapted(Error("key_error", None, None), <<>>)
    ELSE LET tool_call_info == output[1].additional_kwargs[1]
         IN Adapted(NoError,
                    <<ToolMessage(Last(output).content,
                                  tool_call_info.tool_call_name,
                                  tool_call_info.tool_call_id,
                                  0)>>)

\* output["messages"][0] raises IndexError on an empty output;
\* tool_call_info[...] raises KeyError when the first message has no such keys
_get_agent_output_as_tool_response(output) ==
    IF Len(output) = 0
    THEN Adapted(Error("index_error", None, None), <<>>)
    ELSE IF output[1].additional_kwargs = None
    THEN Adapted(Error("key_error", None, None), <<>>)
    ELSE LET tool_call_info == output[1].additional_kwargs[1]
         IN Adapted(NoError,
                    <<ToolMessage(Last(output).content,
                                  tool_call_info.tool_call_name,
                                  tool_call_info.tool_call_id,
                                  tool_call_info.tool_message_id)>>)

_get_agent_input(self, input) ==
    IF self.agent_input_strategy = "full_history"
    THEN Adapted(NoError, input)
    ELSE IF self.agent_input_strategy = "tool_call"
    THEN _get_agent_input_from_tool_call(input, self.name)
    ELSE Adapted(Error("invalid_input_strategy", self.name, None), <<>>)

\* last_message taking output["messages"][0] instead of [-1]
_get_agent_output_first_message(self, output) ==
    IF self.agent_output_strategy = "full_history"
    THEN Adapted(NoError, output)
    ELSE IF self.agent_output_strategy = "last_message"
    THEN IF Len(output) = 0
         THEN Adapted(Error("index_error", None, None), <<>>)
         ELSE Adapted(NoError, <<output[1]>>)
    ELSE IF self.agent_output_strategy = "tool_response"
    THEN _get_agent_output_as_tool_response(output)
    ELSE Adapted(Error("invalid_output_strategy", self.name, None), <<>>)

\* `{"messages": output["messages"][-1]}` is a single message, which the
\* reducer takes as a list of one
_get_agent_output(self, output) ==
    IF self.agent_output_strategy = "full_history"
    THEN Adapted(NoError, output)
    ELSE IF self.agent_output_strategy = "last_message"
    THEN IF Len(output) = 0
         THEN Adapted(Error("index_error", None, None), <<>>)
         ELSE Adapted(NoError, <<Last(output)>>)
    ELSE IF self.agent_output_strategy = "tool_response"
    THEN _get_agent_output_as_tool_response(output)
    ELSE Adapted(Error("invalid_output_strategy", self.name, None), <<>>)

\* the underlying capability: a graph over the messages state returns its
\* input followed by what it produced (keeps_input); any other capability
\* returns only what it produced
AgentOutput(agent_input, keeps_input, produced) ==
    (IF keeps_input THEN agent_input ELSE <<>>) \o produced

Surfaces == {"invoke", "ainvoke", "stream", "astream"}

\* what one call of a node's surface does: agent_input is None when the
\* capability was not reached, update is None when nothing was returned
NodeCall(surface, self, input, agent_input, output, update, error) ==
    [op |-> surface, node |-> self, input |-> input, agent_input |-> agent_input,
     output |-> output, update |-> update, error |-> error,
     add_handoff_back_messages |-> FALSE]

\* LangGraphAgent.invoke and LangGraphAgent.ainvoke
invoke(surface, self, input, keeps_input, produced) ==
    LET adapted == _get_agent_input(self, input)
        output == AgentOutput(adapted.messages, keeps_input, produced)
        result_ == _get_agent_output(self, output)
    IN IF adapted.error # NoError
       THEN NodeCall(surface, self, input, None, <<>>, None, adapted.error)
       ELSE IF result_.error # NoError
       THEN NodeCall(surface, self, input, Some(adapted.messages), output, None, result_.error)
       ELSE NodeCall(surface, self, input, Some(adapted.messages), output,
                     Some(result_.messages), NoError)

\* LangGraphAgent.stream and LangGraphAgent.astream: the input goes to the
\* capability as it is and the capability's chunks come back as they are
stream(surface, self, input, keeps_input, produced) ==
    LET output == AgentOutput(input, keeps_input, produced)
    IN NodeCall(surface, self, input, Some(input), output, Some(output), NoError)

(***************************************************************************)
(* langgraph_multi_agent_supervisor/supervisor.py: call_agent              *)
(***************************************************************************)
TransferBackTo == <<"t", "r", "a", "n", "s", "f", "e", "r", "_", "b", "a", "c", "k", "_", "t", "o", "_">>

\* a pair (AIMessage, ToolMessage) recording the handoff back to the supervisor
create_handoff_back_messages(agent_name, supervisor_name) ==
    <<[AIMessage(<<"Transferring back to ">> \o supervisor_name,
                 <<ToolCall(TransferBackTo \o supervisor_name, None, 1)>>)
          EXCEPT !.name = agent_name],
      ToolMessage(<<"Successfully transferred back to ">> \o supervisor_name,
                  TransferBackTo \o supervisor_name, 1, 0)>>

call_agent(agent, agent_output_mode, add_handoff_back_messages, supervisor_name, state, produced) ==
    LET output == AgentOutput(state, TRUE, produced)
        messages_ == IF agent_output_mode = "full_history" \/ Len(output) = 0 THEN output
                     ELSE <<Last(output)>>
        extended == IF add_handoff_back_messages
                    THEN messages_ \o create_handoff_back_messages(agent.name, supervisor_name)
                    ELSE messages_
    IN [NodeCall("call_agent", [agent EXCEPT !.agent_output_strategy = agent_output_mode],
                 state, Some(state), output, Some(extended), NoError)
           EXCEPT !.add_handoff_back_messages = add_handoff_back_messages]

(***************************************************************************)
(* State                                                                   *)
(***************************************************************************)
VARIABLES
    agents,     \* the agent nodes defined so far, in definition order
    pc,         \* "define" | "done" at build time; "compose" | "returned" | "merged" at run time
    result,     \* the last constructor or build call and what it gave
    messages,   \* the shared state's messages
    call        \* the last run-time operation and what it gave

vars == <<agents, pc, result, messages, call>>

NoCall == [op |-> "none"]

NoResult ==
    [op |-> "none", supervisor_name |-> None, is_router |-> FALSE,
     agents_as_tools |-> FALSE, graph |-> EmptyGraph]

Raised(op, e) == [NoResult EXCEPT !.op = op, !.graph = [EmptyGraph EXCEPT !.error = e]]

AgentNameChoices == {NameB, NameC}

AlwaysHandoffChoices == {None, Some(<<NameBC>>)}

\* <<agent_input_strategy, agent_output_strategy>>
StrategyChoices ==
    {<<"full_history", "full_history">>,
     <<"full_history", "tool_response">>,
     <<"tool_call", "tool_response">>}

CanHandoffChoices ==
    {None,
     Some(<<StrEntry(NameC)>>),
     Some(<<StrEntry(NameBC)>>),
     Some(<<ConfigEntry(NameC, TRUE)>>),
     Some(<<ConfigEntry(NameC, TRUE), StrEntry(NameBC)>>)}

UpdateChoices ==
    {[NoUpdate EXCEPT !.name = Some(NameC)],
     [NoUpdate EXCEPT !.agent_output_strategy = Some("tool_response")],
     [NoUpdate EXCEPT !.agent_input_strategy = Some("tool_call"),
                      !.agent_output_strategy = Some("tool_response")]}

SupervisorNameChoices == {DefaultSupervisorName, NameB}

GraphNameChoices == {NameB, LangGraphName, None}

AllOfClass(classes) == \A i \in 1..Len(agents) : agents[i].class \in classes

BuildInit ==
    /\ agents = <<>>
    /\ pc = "define"
    /\ result = NoResult
    /\ messages = <<>>
    /\ call = NoCall

(***************************************************************************)
(* Build-time operations                                                   *)
(***************************************************************************)
NewLangGraphAgent ==
    /\ pc = "define"
    /\ Len(agents) < MaxAgents
    /\ \E name \in AgentNameChoices, is_entrypoint \in BOOLEAN,
          always_handoff_to \in AlwaysHandoffChoices, strategies \in StrategyChoices :
          agents' = Append(agents, LangGraphAgent(name, name, is_entrypoint,
                                                  always_handoff_to,
                                                  strategies[1], strategies[2]))
    /\ UNCHANGED <<pc, result, messages, call>>

NewToolCallingAgent ==
    /\ pc = "define"
    /\ Len(agents) < MaxAgents
    /\ \E can_handoff_to \in CanHandoffChoices,
          strategies \in StrategyChoices \cup {<<"full_history", "last_message">>} :
          LET c == ToolCallingAgent(NameB, FALSE, can_handoff_to, None,
                                    strategies[1], strategies[2])
          IN IF c.error = NoError
             THEN /\ agents' = Append(agents, c.node)
                  /\ UNCHANGED <<pc, result, messages, call>>
             ELSE /\ pc' = "done"
                  /\ result' = Raised("ToolCallingAgent", c.error)
                  /\ UNCHANGED <<agents, messages, call>>

CopyAgent ==
    /\ pc = "define"
    /\ Len(agents) < MaxAgents
    /\ \E i \in 1..Len(agents), update \in UpdateChoices :
          LET c == copy(agents[i], update)
          IN IF c.error = NoError
             THEN /\ agents' = Append(agents, c.node)
                  /\ UNCHANGED <<pc, result, messages, call>>
             ELSE /\ pc' = "done"
                  /\ result' = Raised("copy", c.error)
                  /\ UNCHANGED <<agents, messages, call>>

CompileGraph ==
    /\ pc = "define"
    /\ Len(agents) < MaxAgents
    /\ \E name \in GraphNameChoices : agents' = Append(agents, CompiledStateGraph(name))
    /\ UNCHANGED <<pc, result, messages, call>>

CreateMultiAgentWorkflow ==
    /\ pc = "define"
    /\ AllOfClass({"LangGraphAgent", "ToolCallingAgent"})
    /\ \E outcome \in EdgeOutcomes :
          result' = [NoResult EXCEPT !.op = "create_multi_agent_workflow",
                                     !.graph = create_multi_agent_workflow(agents, outcome)]
    /\ pc' = "done"
    /\ UNCHANGED <<agents, messages, call>>

CreateSupervisor ==
    /\ pc = "define"
    /\ AllOfClass({"LangGraphAgent", "ToolCallingAgent"})
    /\ \E supervisor_name \in SupervisorNameChoices, is_router \in BOOLEAN,
          agents_as_tools \in BOOLEAN, outcome \in EdgeOutcomes :
          result' = [op |-> "create_supervisor",
                     supervisor_name |-> supervisor_name,
                     is_router |-> is_router,
                     agents_as_tools |-> agents_as_tools,
                     graph |-> create_supervisor(agents, supervisor_name, is_router,
                                                 agents_as_tools, outcome)]
    /\ pc' = "done"
    /\ UNCHANGED <<agents, messages, call>>

LegacyCreateSupervisor ==
    /\ pc = "define"
    /\ AllOfClass({"CompiledStateGraph"})
    /\ \E supervisor_name \in SupervisorNameChoices, is_router \in BOOLEAN,
          agent_output_mode \in OutputModes :
          result' = [op |-> "legacy_create_supervisor",
                     supervisor_name |-> supervisor_name,
                     is_router |-> is_router,
                     agents_as_tools |-> FALSE,
                     graph |-> legacy_create_supervisor(agents, supervisor_name,
                                                        is_router, agent_output_mode)]
    /\ pc' = "done"
    /\ UNCHANGED <<agents, messages, call>>

BuildNext ==
    \/ NewLangGraphAgent
    \/ NewToolCallingAgent
    \/ CopyAgent
    \/ CompileGraph
    \/ CreateMultiAgentWorkflow
    \/ CreateSupervisor
    \/ LegacyCreateSupervisor

Spec == BuildInit /\ [][BuildNext]_vars


(***************************************************************************)
(* Run-time operations on the shared state                                 *)
(***************************************************************************)
MaxMessages == 3

Task1 == <<"refund request">>

Reply1 == <<"Looking it up">>

Reply2 == <<"Refund processed">>

RunNodeNames == {NameB, NameBC}

\* the tool calls of an AI message at position `pos` of the shared state
ToolCallChoices(pos) ==
    {<<>>,
     <<ToolCall(ToolName(NameB), None, 10 * pos)>>,
     <<ToolCall(ToolName(NameB), Some(Task1), 10 * pos)>>,
     <<ToolCall(ToolName(NameBC), None, 10 * pos)>>,
     <<ToolCall(ToolName(NameBC), Some(Task1), 10 * pos)>>,
     <<ToolCall(ToolName(NameB), Some(Task1), 10 * pos),
       ToolCall(ToolName(NameBC), Some(Task1), 10 * pos + 1)>>}

\* what a node of the workflow may add to the shared state
UpstreamMessages(pos) ==
    {HumanMessage(<<"hi">>, None), ToolMessage(<<"42">>, <<"calc">>, 1, 0)}
        \cup {AIMessage(<<"ok">>, tool_calls) : tool_calls \in ToolCallChoices(pos)}

\* what the underlying capability produces
ProducedChoices == {<<>>, <<AIMessage(Reply1, <<>>), AIMessage(Reply2, <<>>)>>}

RunInit ==
    /\ agents = <<>>
    /\ pc = "compose"
    /\ result = NoResult
    /\ messages = <<>>
    /\ call = NoCall

\* a node's state update is merged into the shared state
AppendUpdate ==
    /\ pc = "compose"
    /\ Len(messages) < MaxMessages
    /\ \E m \in UpstreamMessages(Len(messages) + 1) :
          messages' = add_messages(messages, <<m>>)
    /\ call' = [op |-> "update"]
    /\ UNCHANGED <<agents, pc, result>>

\* the handoff tool named by a tool call of the last AI message runs and its
\* command's update is merged into the shared state
InvokeHandoffTool ==
    /\ pc = "compose"
    /\ Len(messages) >= 1
    /\ Len(messages) < MaxMessages
    /\ Last(messages).type = "ai"
    /\ \E k \in 1..Len(Last(messages).tool_calls), target \in RunNodeNames :
          LET tool_call == Last(messages).tool_calls[k]
              handoff_config == HandoffConfig(target, tool_call.args # None)
              tool == create_handoff_tool(handoff_config)
              command == handoff_to_agent(handoff_config, tool_call.args, tool_call.id)
          IN /\ tool.name = tool_call.name
             /\ messages' = add_messages(messages, command.update)
             /\ call' = [op |-> "handoff_tool", tool |-> tool, tool_call |-> tool_call,
                         command |-> command]
    /\ UNCHANGED <<agents, pc, result>>

\* the engine (or a caller) calls one surface of a node with the shared state
Invoke ==
    /\ pc = "compose"
    /\ \E name \in RunNodeNames, ins \in InputStrategies, outs \in OutputStrategies,
          surface \in Surfaces, keeps_input \in BOOLEAN, produced \in ProducedChoices :
          LET self == LangGraphAgent(name, name, FALSE, None, ins, outs)
          IN call' = IF surface \in {"invoke", "ainvoke"}
                     THEN invoke(surface, self, messages, keeps_input, produced)
                     ELSE stream(surface, self, messages, keeps_input, produced)
    /\ pc' = "returned"
    /\ UNCHANGED <<agents, result, messages>>

\* the engine calls a worker vertex of the legacy supervisor
CallAgent ==
    /\ pc = "compose"
    /\ \E name \in RunNodeNames, agent_output_mode \in OutputModes,
          add_handoff_back_messages \in BOOLEAN, produced \in ProducedChoices :
          call' = call_agent(CompiledStateGraph(name), agent_output_mode,
                             add_handoff_back_messages, DefaultSupervisorName,
                             messages, produced)
    /\ pc' = "returned"
    /\ UNCHANGED <<agents, result, messages>>

\* the engine merges the update a node returned into the shared state
Merge ==
    /\ pc = "returned"
    /\ call.op \in {"invoke", "ainvoke", "call_agent"}
    /\ call.error = NoError
    /\ messages' = add_messages(messages, call.update[1])
    /\ pc' = "merged"
    /\ UNCHANGED <<agents, result, call>>

RunNext ==
    \/ AppendUpdate
    \/ InvokeHandoffTool
    \/ Invoke
    \/ CallAgent
    \/ Merge

RunSpec == RunInit /\ [][RunNext]_vars

(***************************************************************************)
(* Build-time properties                                                   *)
(***************************************************************************)
BuildOps == {"create_multi_agent_workflow", "create_supervisor", "legacy_create_supervisor"}

\* a build call has returned a graph
Returned(op) == pc = "done" /\ result.op = op /\ result.graph.error = NoError

Finished(op) == pc = "done" /\ result.op = op

TargetNames(agent) ==
    IF agent.class = "ToolCallingAgent" /\ Len(agent.can_handoff_to) > 0
    THEN {agent.can_handoff_to[1][k].agent_name : k \in 1..Len(agent.can_handoff_to[1])}
    ELSE {}

\* <<i, z>>: agents[i] declares the handoff target z and no listed agent is named z
DanglingHandoffs ==
    {p \in (1..Len(agents)) \X {NameB, NameC, NameBC} :
        p[2] \in TargetNames(agents[p[1]]) /\ ~HasKey(agents, p[2])}

DistinctNames(list) ==
    \A i, j \in 1..Len(list) : list[i].name = list[j].name => i = j

\* C1 as stated: whenever agents[i] declares an absent target z, the build
\* fails with an error naming agents[i] and z.
C1_AsStated ==
    Finished("create_multi_agent_workflow") =>
        \A p \in DanglingHandoffs :
            /\ result.graph.error # NoError
            /\ result.graph.error.source = agents[p[1]].name
            /\ result.graph.error.target = p[2]

\* C1, amended: when some agent declares an absent handoff target the build
\* raises an error and returns no graph; an unknown-target error names a declaring agent
\* and a target it declares that is absent; with pairwise distinct names the
\* error comes from handoff validation (unknown target, or the task-description
\* check of a declaration validated earlier).
C1_UnknownTargetFailsBuild ==
    (Finished("create_multi_agent_workflow") /\ DanglingHandoffs # {}) =>
        LET e == result.graph.error
        IN /\ e # NoError
           /\ e.kind = "unknown_handoff_target" =>
                 \E p \in DanglingHandoffs :
                     e.source = agents[p[1]].name /\ e.target = p[2]
           /\ DistinctNames(agents) =>
                 e.kind \in {"unknown_handoff_target", "task_description_strategy"}

C1_Witness ==
    /\ Finished("create_multi_agent_workflow")
    /\ DanglingHandoffs # {}
    /\ result.graph.error = Error("unknown_handoff_target", NameB, NameBC)

AlwaysHandoffNames(agent) ==
    IF Len(agent.always_handoff_to) > 0
    THEN {agent.always_handoff_to[1][k] : k \in 1..Len(agent.always_handoff_to[1])}
    ELSE {}

C3_NoToolResponseWithoutToolCall ==
    (pc = "done" /\ result.op \in BuildOps /\ result.graph.error = NoError) =>
        \A i \in 1..Len(result.graph.nodes) :
            result.graph.nodes[i].node.agent_output_strategy = "tool_response"
                => result.graph.nodes[i].node.agent_input_strategy = "tool_call"

\* the names a build call registers: the supervisor's, when there is one, and
\* the listed agents'
RequestedNames ==
    (IF result.op = "create_multi_agent_workflow" THEN <<>> ELSE <<result.supervisor_name>>)
        \o [i \in 1..Len(agents) |-> agents[i].name]

HasDuplicate(names) == \E i, j \in 1..Len(names) : i # j /\ names[i] = names[j]

\* C4: a build whose agents (the supervisor included) do not have pairwise
\* distinct names is rejected with a duplicate-name error; a returned graph has
\* pairwise distinct vertex names and every listed agent as a vertex.
C4_DuplicateNamesRejected ==
    (pc = "done" /\ result.op \in BuildOps) =>
        /\ HasDuplicate(RequestedNames) =>
              result.graph.error.kind \in {"node_already_present", "agent_name_exists"}
        /\ result.graph.error = NoError =>
              /\ DistinctNames(result.graph.nodes)
              /\ \A i \in 1..Len(agents) : agents[i].name \in NodeNames(result.graph)

\* C7: in a graph returned by either create_supervisor, every worker has a
\* static edge to the coordinator when is_router is false, and no worker has
\* one when is_router is true.
C7_WorkersReturnToCoordinator ==
    (pc = "done" /\ result.op \in {"create_supervisor", "legacy_create_supervisor"}
        /\ result.graph.error = NoError) =>
        \A i \in 1..Len(agents) :
            (<<agents[i].name, result.supervisor_name>> \in result.graph.edges)
                <=> ~result.is_router


(***************************************************************************)
(* Run-time properties                                                     *)
(***************************************************************************)
Called(ops) == pc \in {"returned", "merged"} /\ call.op \in ops

\* the shared state a node was called with ends with an AI message whose one
\* tool call is transfer_to_<node>(task_description = d), followed by the
\* placeholder the handoff tool returned for that call
AgentAsToolInput ==
    /\ Len(call.input) >= 2
    /\ LET ai == call.input[Len(call.input) - 1]
           placeholder == Last(call.input)
       IN /\ ai.type = "ai"
          /\ Len(ai.tool_calls) = 1
          /\ ai.tool_calls[1].name = ToolName(call.node.name)
          /\ ai.tool_calls[1].args # None
          /\ placeholder.type = "tool"
          /\ placeholder.name = ToolName(call.node.name)
          /\ placeholder.tool_call_id = ai.tool_calls[1].id
          /\ placeholder.content = ToolMessageContent(call.node.name)

AgentAsToolCall ==
    /\ Called({"invoke", "ainvoke"})
    /\ call.node.agent_input_strategy = "tool_call"
    /\ call.node.agent_output_strategy = "tool_response"
    /\ AgentAsToolInput

\* C5: agent-as-tool round trip.  The capability receives exactly one human
\* message whose content is the task description of the tool call; when the
\* capability returns its input followed by what it produced the node returns
\* an update; once the update is merged the shared state has the length it had,
\* its messages before the placeholder are unchanged, and the message at the
\* placeholder's position is a tool message with the placeholder's id, name and
\* tool_call_id and the content of the capability's last output message.
C5_AgentAsToolRoundTrip ==
    AgentAsToolCall =>
        LET n == Len(call.input)
            d == call.input[n - 1].tool_calls[1].args[1]
            placeholder == call.input[n]
        IN /\ call.agent_input # None
           /\ Len(call.agent_input[1]) = 1
           /\ call.agent_input[1][1].type = "human"
           /\ call.agent_input[1][1].content = d
           /\ (Len(call.output) >= 1 /\ call.output[1] = call.agent_input[1][1])
                 => call.error = NoError
           /\ pc = "merged" =>
                 /\ Len(messages) = n
                 /\ \A i \in 1..(n - 1) : messages[i] = call.input[i]
                 /\ messages[n].type = "tool"
                 /\ messages[n].id = placeholder.id
                 /\ messages[n].name = placeholder.name
                 /\ messages[n].tool_call_id = placeholder.tool_call_id
                 /\ messages[n].content = Last(call.output).content

C5_Witness ==
    /\ AgentAsToolCall
    /\ pc = "merged"
    /\ Len(call.input) = 3
    /\ Last(call.output).content = Reply2
    /\ Last(messages).content = Reply2

LastMessageCall ==
    \/ Called({"invoke", "ainvoke"}) /\ call.node.agent_output_strategy = "last_message"
    \/ Called({"call_agent"}) /\ call.node.agent_output_strategy = "last_message"

\* C6 as stated: for a non-empty output of the capability, a node using
\* last_message (LangGraphAgent or the legacy supervisor's call_agent) returns
\* an update of exactly one message, the last of the output.
C6_AsStated ==
    (LastMessageCall /\ Len(call.output) > 0) =>
        /\ call.error = NoError
        /\ call.update = Some(<<Last(call.output)>>)

\* C6, amended: a LangGraphAgent using last_message returns exactly the last
\* output message; call_agent in last_message mode returns the last output
\* message, alone when add_handoff_back_messages is false and followed by the
\* handoff-back messages when it is true.
C6_LastMessageOnly ==
    (LastMessageCall /\ Len(call.output) > 0) =>
        /\ call.error = NoError
        /\ call.update =
              Some(<<Last(call.output)>> \o
                   (IF call.add_handoff_back_messages
                    THEN create_handoff_back_messages(call.node.name, DefaultSupervisorName)
                    ELSE <<>>))
        /\ call.op \in {"invoke", "ainvoke"} => Len(call.update[1]) = 1

C6_Witness ==
    /\ Called({"invoke"})
    /\ call.node.agent_output_strategy = "last_message"
    /\ Len(call.output) >= 2
    /\ call.output[1] # Last(call.output)
    /\ call.update = Some(<<Last(call.output)>>)

\* the preconditions of the tool_call input adapter that `input` violates:
\* 1 at least two messages, 2 the second-to-last message is an AI message with
\* exactly one tool call, 3 the last message is a tool message, 4 the tool
\* call's name references the agent's name, 5 its args hold task_description
ViolatedPreconditions(input, agent_name) ==
    IF Len(input) < 2 THEN {1}
    ELSE LET ai == input[Len(input) - 1]
             p2 == ai.type = "ai" /\ Len(ai.tool_calls) = 1
         IN (IF p2 THEN {} ELSE {2})
            \cup (IF Last(input).type = "tool" THEN {} ELSE {3})
            \cup (IF p2 /\ ~Contains(agent_name, ai.tool_calls[1].name) THEN {4} ELSE {})
            \cup (IF p2 /\ ai.tool_calls[1].args = None THEN {5} ELSE {})

\* the preconditions the message of each error of the adapter names
NamedPreconditions(kind) ==
    CASE kind = "too_few_messages" -> {1}
      [] kind = "last_two_types" -> {2, 3}
      [] kind = "tool_call_count" -> {2}
      [] kind = "tool_call_name" -> {4}
      [] kind = "no_task_description" -> {5}
      [] OTHER -> {}

\* C8: on an input violating a precondition the tool_call adapter returns no
\* agent input and raises an error that names exactly one precondition, one
\* the input violates.
C8_DistinctErrorPerPrecondition ==
    (Called({"invoke", "ainvoke"}) /\ call.node.agent_input_strategy = "tool_call") =>
        LET violated == ViolatedPreconditions(call.input, call.node.name)
        IN violated # {} =>
              /\ call.agent_input = None
              /\ Cardinality(NamedPreconditions(call.error.kind)) = 1
              /\ NamedPreconditions(call.error.kind) \subseteq violated

\* a message carries d: as its content or in the args of a tool call it records
Carries(m, d) ==
    \/ m.content = d
    \/ \E k \in 1..Len(m.tool_calls) : m.tool_calls[k].args = Some(d)

TaskDescriptionHandoff == call.op = "handoff_tool" /\ call.tool.takes_task_description

\* C9 as stated: the state update of the command a task-description handoff
\* tool returns carries the task description.
C9_AsStated ==
    TaskDescriptionHandoff =>
        \E i \in 1..Len(call.command.update) :
            Carries(call.command.update[i], call.tool_call.args[1])

\* C9, amended: the command of a task-description handoff tool goes to the
\* target in the parent graph and its update is exactly the placeholder tool
\* message, which does not carry the task description; when the placeholder
\* follows the AI message whose single tool call invoked the tool, the target's
\* input adapter returns the task description taken from that tool call's args.
C9_TaskDescriptionStaysInToolCall ==
    TaskDescriptionHandoff =>
        LET target == call.tool.handoff_config.agent_name
            d == call.tool_call.args[1]
            ai == messages[Len(messages) - 1]
            adapted == _get_agent_input_from_tool_call(messages, target)
        IN /\ call.command.goto = target
           /\ call.command.graph = "PARENT"
           /\ call.command.update =
                 <<ToolMessage(ToolMessageContent(target), ToolName(target),
                               call.tool_call.id, 0)>>
           /\ ~Carries(call.command.update[1], d)
           /\ Len(ai.tool_calls) = 1 =>
                 /\ adapted.error = NoError
                 /\ adapted.messages[1].content = d

C9_Witness ==
    /\ TaskDescriptionHandoff
    /\ Len(messages[Len(messages) - 1].tool_calls) = 1
    /\ call.tool_call.args = Some(Task1)
    /\ Last(messages).content = ToolMessageContent(call.command.goto)

\* C10: on every surface the capability receives the input adapter's result
\* for the shared state, and nothing when the adapter raises; a tool_call node
\* never hands the capability the shared state itself.
C10_AdapterOnEverySurface ==
    Called(Surfaces) =>
        LET adapted == _get_agent_input(call.node, call.input)
        IN /\ adapted.error = NoError => call.agent_input = Some(adapted.messages)
           /\ adapted.error # NoError => call.agent_input = None
           /\ call.node.agent_input_strategy = "tool_call" =>
                 call.agent_input # Some(call.input)


(***************************************************************************)
(* Properties of copy and of the assembled graphs                          *)
(***************************************************************************)
\* the step that copies agents[i] with the overrides `update`
CopyStep(i, update) ==
    /\ pc = "define"
    /\ Len(agents) < MaxAgents
    /\ LET c == copy(agents[i], update)
       IN IF c.error = NoError
          THEN agents' = Append(agents, c.node) /\ pc' = pc /\ result' = result
          ELSE pc' = "done" /\ result' = Raised("copy", c.error) /\ agents' = agents

\* C11: copy of any agent node with any overrides succeeds; the new node has
\* the original's class and underlying capability, the overridden fields set
\* to the given values and every other field equal to the original's; every
\* node that existed before, the original included, is unchanged.
C11_CopyKeepsCapability ==
    [][\A i \in 1..Len(agents), update \in UpdateChoices :
          CopyStep(i, update) =>
              /\ pc' = "define"
              /\ Len(agents') = Len(agents) + 1
              /\ \A j \in 1..Len(agents) : agents'[j] = agents[j]
              /\ LET new == agents'[Len(agents')]
                     old == agents[i]
                 IN /\ new.class = old.class
                    /\ new.agent = old.agent
                    /\ new.can_handoff_to = old.can_handoff_to
                    /\ new.name = Override(update.name, old.name)
                    /\ new.is_entrypoint = Override(update.is_entrypoint, old.is_entrypoint)
                    /\ new.always_handoff_to =
                          Override(update.always_handoff_to, old.always_handoff_to)
                    /\ new.agent_input_strategy =
                          Override(update.agent_input_strategy, old.agent_input_strategy)
                    /\ new.agent_output_strategy =
                          Override(update.agent_output_strategy, old.agent_output_strategy)]_vars

\* the entries of a node's can_handoff_to that request a task description
TaskDescriptionTargets(agent) ==
    IF agent.class = "ToolCallingAgent" /\ Len(agent.can_handoff_to) > 0
    THEN {agent.can_handoff_to[1][k].agent_name : k \in
             {k \in 1..Len(agent.can_handoff_to[1]) :
                 AsHandoffConfig(agent.can_handoff_to[1][k]).create_task_description}}
    ELSE {}

\* some listed agent requests a task description for a target that is listed
\* under that name with an input strategy other than tool_call
MiswiredTaskDescription ==
    \E i, j \in 1..Len(agents) :
        /\ agents[j].name \in TaskDescriptionTargets(agents[i])
        /\ agents[j].agent_input_strategy # "tool_call"

\* C12: create_multi_agent_workflow fails when a listed agent requests a task
\* description for a listed target whose input strategy is not tool_call; in
\* every graph create_multi_agent_workflow or create_supervisor returns, each
\* task-description handoff of a vertex names a vertex whose input strategy
\* is tool_call.
C12_TaskDescriptionNeedsToolCall ==
    /\ (Finished("create_multi_agent_workflow") /\ MiswiredTaskDescription)
          => result.graph.error # NoError
    /\ (Returned("create_multi_agent_workflow") \/ Returned("create_supervisor")) =>
          \A i \in 1..Len(result.graph.nodes) :
              \A z \in TaskDescriptionTargets(result.graph.nodes[i].node) :
                  \E j \in 1..Len(result.graph.nodes) :
                      /\ result.graph.nodes[j].name = z
                      /\ result.graph.nodes[j].node.agent_input_strategy = "tool_call"

C12_Witness ==
    /\ Finished("create_multi_agent_workflow")
    /\ DistinctNames(agents)
    /\ MiswiredTaskDescription
    /\ result.graph.error = Error("task_description_strategy", NameB, NameC)

\* C15: a graph returned by create_supervisor has exactly one edge from START,
\* and it leads to the coordinator.
C15_SingleEntryAtCoordinator ==
    (Returned("create_supervisor") \/ Returned("legacy_create_supervisor")) =>
        {e \in result.graph.edges : e[1] = START} = {<<START, result.supervisor_name>>}


\* C14: the tool_call input adapter of node X returns no agent input for a
\* shared state whose last AI message has the single tool call
\* transfer_to_<Y> of another node Y.
C14_AdapterRejectsOtherTarget ==
    (Called({"invoke", "ainvoke"}) /\ call.node.agent_input_strategy = "tool_call"
        /\ Len(call.input) >= 2) =>
        LET ai == call.input[Len(call.input) - 1]
        IN (/\ ai.type = "ai"
            /\ Len(ai.tool_calls) = 1
            /\ \E y \in RunNodeNames \ {call.node.name} :
                  ai.tool_calls[1].name = ToolName(y))
              => call.agent_input = None


(***************************************************************************)
(* A declared handoff taken in a built workflow                            *)
(***************************************************************************)
\* a vertex's model calls, as the single tool call of an AI message, one of the
\* handoff tools ToolCallingAgent.__init__ created from its can_handoff_to;
\* the AI message and the command's update are merged into the shared state
DeclaredHandoff ==
    /\ Returned("create_multi_agent_workflow")
    /\ \E i \in 1..Len(result.graph.nodes) :
          LET self == result.graph.nodes[i].node
          IN /\ self.class = "ToolCallingAgent"
             /\ Len(self.can_handoff_to) > 0
             /\ \E k \in 1..Len(self.can_handoff_to[1]) :
                   LET handoff_config == AsHandoffConfig(self.can_handoff_to[1][k])
                       tool == create_handoff_tool(handoff_config)
                       tool_call == ToolCall(tool.name,
                                             IF tool.takes_task_description
                                             THEN Some(Task1) ELSE None,
                                             10)
                       command == handoff_to_agent(handoff_config, tool_call.args,
                                                   tool_call.id)
                   IN /\ messages' = add_messages(
                                        add_messages(messages,
                                                     <<AIMessage(<<"ok">>, <<tool_call>>)>>),
                                        command.update)
                      /\ call' = [op |-> "handoff_tool", tool |-> tool,
                                  tool_call |-> tool_call, command |-> command]
    /\ pc' = "handed_off"
    /\ UNCHANGED <<agents, result>>

\* the engine follows the command's goto and invokes the destination vertex
EnterDestination ==
    /\ pc = "handed_off"
    /\ \E j \in 1..Len(result.graph.nodes), produced \in ProducedChoices :
          /\ result.graph.nodes[j].name = call.command.goto
          /\ call' = invoke("invoke", result.graph.nodes[j].node, messages, TRUE, produced)
    /\ pc' = "returned"
    /\ UNCHANGED <<agents, result, messages>>

HandoffNext ==
    \/ BuildNext
    \/ DeclaredHandoff
    \/ EnterDestination

HandoffSpec == BuildInit /\ [][HandoffNext]_vars

\* C13: in a workflow create_multi_agent_workflow returned, when a declared
\* handoff tool was called as the single tool call of an AI message and its
\* placeholder merged, the destination's input adapter returns an agent input.
C13_DeclaredHandoffAccepted ==
    (pc = "returned" /\ call.op = "invoke") =>
        /\ call.agent_input # None
        /\ call.error.kind \notin {"too_few_messages", "last_two_types", "tool_call_count",
                                   "tool_call_name", "no_task_description"}

=============================================================================
